---------------------------- MODULE Spec2Model ----------------------------
(***************************************************************************)
(* A model of tyr/sfg.py: five closed-form scaling relations over floats. *)
(*                                                                         *)
(* The functions are pure float arithmetic, so the model carries its own   *)
(* floating-point numbers: a sign, a Digits-digit decimal significand and  *)
(* a decimal exponent, every operation rounded to nearest (ties to even),  *)
(* with the special values (inf, nan, complex) and the exceptions that     *)
(* Python floats and numpy float64 produce.  A value remembers whether it  *)
(* is a numpy value (np), because numpy warns and continues with inf/nan   *)
(* where a Python float raises.                                            *)
(***************************************************************************)
EXTENDS Integers, Sequences, FiniteSets, TLC

VARIABLES frame, module_globals

vars == <<frame, module_globals>>

---------------------------------------------------------------------------
(* Floating-point format                                                   *)

Digits == 4
EMax == 308
EMin == -324
PowBits == 14

MantLo == 10 ^ (Digits - 1)
MantHi == 10 ^ Digits - 1

Exceptions == {"ZeroDivisionError", "OverflowError", "NameError", "TypeError"}

Val(t, np, s, m, e) == [t |-> t, np |-> np, s |-> s, m |-> m, e |-> e]

Num(np, s, m, e) == Val("num", np, s, m, e)
Zero(np) == Val("num", np, 1, 0, 0)
Inf(np, s) == Val("inf", np, s, 0, 0)
NaN(np) == Val("nan", np, 1, 0, 0)
\* A complex result is opaque; m = 0 marks the complex zero 0j.
Complex(np, nonzero) == Val("complex", np, 1, IF nonzero THEN 1 ELSE 0, 0)
Raise(exc) == Val(exc, FALSE, 1, 0, 0)
None == Val("None", FALSE, 1, 0, 0)

IsExc(v) == v.t \in Exceptions
IsNum(v) == v.t = "num"
IsZero(v) == v.t \in {"num", "complex"} /\ v.m = 0
AsNp(v) == IF IsExc(v) \/ v.t = "None" THEN v ELSE [v EXCEPT !.np = TRUE]

\* n * 10^e, n > 0, rounded to Digits digits; sticky: digits already dropped.
RECURSIVE Norm(_, _, _)
Norm(n, e, sticky) ==
    IF n = 0 THEN <<0, 0>>
    ELSE IF n < MantLo THEN Norm(n * 10, e - 1, sticky)
    ELSE IF n > MantHi * 10 + 9
         THEN Norm(n \div 10, e + 1, sticky \/ (n % 10 # 0))
    ELSE IF n > MantHi
         THEN LET q == n \div 10
                  d == n % 10
                  up == d > 5 \/ (d = 5 /\ (sticky \/ q % 2 = 1))
                  r == IF up THEN q + 1 ELSE q
              IN  IF r > MantHi THEN <<MantLo, e + 2>> ELSE <<r, e + 1>>
    ELSE <<n, e>>

\* The float nearest to s * n * 10^e: overflow gives inf, underflow zero.
Round(np, s, r) ==
    IF r[1] = 0 THEN Zero(np)
    ELSE IF r[2] + Digits - 1 > EMax THEN Inf(np, s)
    ELSE IF r[2] + Digits - 1 < EMin THEN Zero(np)
    ELSE Num(np, s, r[1], r[2])

Fl(np, s, n, e, sticky) ==
    CHOOSE v \in { Round(np, s, r) : r \in {Norm(n, e, sticky)} } : TRUE

\* A float literal of the source, m * 10^e.
Lit(m, e) == Fl(FALSE, IF m < 0 THEN -1 ELSE 1, IF m < 0 THEN -m ELSE m, e, FALSE)

One == Lit(1, 0)

Neg(a) == IF a.t \in {"num", "inf"} THEN [a EXCEPT !.s = -a.s] ELSE a

\* Python: float * float, float * None.
MulOf(a, b) ==
    LET np == a.np \/ b.np
    IN  IF IsExc(a) THEN a
        ELSE IF IsExc(b) THEN b
        ELSE IF a.t = "None" \/ b.t = "None" THEN Raise("TypeError")
        ELSE IF a.t = "complex" \/ b.t = "complex"
             THEN Complex(np, ~IsZero(a) /\ ~IsZero(b))
        ELSE IF a.t = "nan" \/ b.t = "nan" THEN NaN(np)
        ELSE IF a.t = "inf" \/ b.t = "inf"
             THEN IF IsZero(a) \/ IsZero(b) THEN NaN(np) ELSE Inf(np, a.s * b.s)
        ELSE Fl(np, a.s * b.s, a.m * b.m, a.e + b.e, FALSE)

Mul(a, b) ==
    CHOOSE r \in { MulOf(v0, v1) : v0 \in {a}, v1 \in {b} } : TRUE

\* Python: float / float.  A zero divisor raises for Python floats; numpy
\* warns and yields inf or nan.
DivOf(a, b) ==
    LET np == a.np \/ b.np
    IN  IF IsExc(a) THEN a
        ELSE IF IsExc(b) THEN b
        ELSE IF a.t = "None" \/ b.t = "None" THEN Raise("TypeError")
        ELSE IF IsZero(b)
             THEN IF ~np THEN Raise("ZeroDivisionError")
                  ELSE IF a.t = "complex" \/ b.t = "complex" THEN Complex(np, TRUE)
                  ELSE IF a.t = "nan" \/ IsZero(a) THEN NaN(np)
                  ELSE Inf(np, a.s)
        ELSE IF a.t = "complex" \/ b.t = "complex" THEN Complex(np, ~IsZero(a))
        ELSE IF a.t = "nan" \/ b.t = "nan" THEN NaN(np)
        ELSE IF a.t = "inf"
             THEN IF b.t = "inf" THEN NaN(np) ELSE Inf(np, a.s * b.s)
        ELSE IF b.t = "inf" THEN Zero(np)
        ELSE IF a.m = 0 THEN Zero(np)
        ELSE LET n == a.m * 10 ^ (Digits + 1)
             IN  Fl(np, a.s * b.s, n \div b.m, a.e - b.e - (Digits + 1),
                    n % b.m # 0)

Div(a, b) ==
    CHOOSE r \in { DivOf(v0, v1) : v0 \in {a}, v1 \in {b} } : TRUE

\* Python: float + float.
AddOf(a, b) ==
    LET np == a.np \/ b.np
    IN  IF IsExc(a) THEN a
        ELSE IF IsExc(b) THEN b
        ELSE IF a.t = "None" \/ b.t = "None" THEN Raise("TypeError")
        ELSE IF a.t = "complex" \/ b.t = "complex"
             THEN Complex(np, ~IsZero(a) \/ ~IsZero(b))
        ELSE IF a.t = "nan" \/ b.t = "nan" THEN NaN(np)
        ELSE IF a.t = "inf"
             THEN IF b.t = "inf" /\ b.s # a.s THEN NaN(np) ELSE Inf(np, a.s)
        ELSE IF b.t = "inf" THEN Inf(np, b.s)
        ELSE IF a.m = 0 THEN [b EXCEPT !.np = np]
        ELSE IF b.m = 0 THEN [a EXCEPT !.np = np]
        ELSE LET hi == IF a.e >= b.e THEN a ELSE b
                 lo == IF a.e >= b.e THEN b ELSE a
                 d == hi.e - lo.e
             IN  IF d > Digits + 1 THEN [hi EXCEPT !.np = np]
                 ELSE LET n == hi.s * hi.m * 10 ^ d + lo.s * lo.m
                      IN  IF n < 0 THEN Fl(np, -1, -n, lo.e, FALSE)
                          ELSE Fl(np, 1, n, lo.e, FALSE)

Add(a, b) ==
    CHOOSE r \in { AddOf(v0, v1) : v0 \in {a}, v1 \in {b} } : TRUE

Sub(a, b) == Add(a, Neg(b))

\* The order of two floats: -1, 0 or 1 (both "num" or "inf").
Key(a) == IF a.t = "inf" THEN <<a.s, EMax + 1, 0>>
          ELSE IF a.m = 0 THEN <<0, 0, 0>>
          ELSE <<a.s, a.e, a.m>>

Cmp(a, b) ==
    LET ka == Key(a)
        kb == Key(b)
    IN  IF ka[1] # kb[1] THEN (IF ka[1] < kb[1] THEN -1 ELSE 1)
        ELSE IF ka[1] = 0 THEN 0
        ELSE IF ka[2] # kb[2] THEN (IF ka[2] < kb[2] THEN -ka[1] ELSE ka[1])
        ELSE IF ka[3] # kb[3] THEN (IF ka[3] < kb[3] THEN -ka[1] ELSE ka[1])
        ELSE 0

Ordered(a) == a.t \in {"num", "inf"}
Lt(a, b) == Ordered(a) /\ Ordered(b) /\ Cmp(a, b) < 0
Le(a, b) == Ordered(a) /\ Ordered(b) /\ Cmp(a, b) <= 0
Eq(a, b) == Ordered(a) /\ Ordered(b) /\ Cmp(a, b) = 0

\* The integer square root of n, by bisection on lo..hi.
RECURSIVE ISqrt(_, _, _)
ISqrt(n, lo, hi) ==
    IF lo >= hi THEN lo
    ELSE LET mid == (lo + hi + 1) \div 2
         IN  IF mid * mid <= n THEN ISqrt(n, mid, hi) ELSE ISqrt(n, lo, mid - 1)

\* The correctly rounded square root of a positive float: r is the integer
\* square root of n, the significand scaled to an even exponent.
SqrtRound(np, n, e, r) ==
    IF r <= MantHi
    THEN Fl(np, 1, IF n - r * r > r THEN r + 1 ELSE r, e \div 2, FALSE)
    ELSE Fl(np, 1, r, e \div 2, r * r # n)

SqrtOf(a) ==
    LET odd == a.e % 2 # 0
        n == a.m * (IF odd THEN 10 ELSE 1) * 10 ^ Digits
        e == (IF odd THEN a.e - 1 ELSE a.e) - Digits
    IN  CHOOSE v \in { SqrtRound(a.np, n, e, r) : r \in {ISqrt(n, 0, 4 * 10 ^ Digits)} } :
            TRUE

Sqrt(a) ==
    CHOOSE r \in { SqrtOf(v0) : v0 \in {a} } : TRUE

\* a ** n for a natural n, by repeated multiplication.
RECURSIVE IntPow(_, _)
IntPow(a, n) == IF n = 0 THEN [One EXCEPT !.np = a.np] ELSE Mul(IntPow(a, n - 1), a)

\* a ** (num / den) for 0 <= num < den, from the binary digits of num / den:
\* the product of the 2^-i-th roots of a whose digit is set, to `bits` digits.
RECURSIVE FracPow(_, _, _, _)
FracDigit(r, num, den, bits) ==
    IF 2 * num >= den THEN Mul(r, FracPow(r, 2 * num - den, den, bits - 1))
    ELSE FracPow(r, 2 * num, den, bits - 1)

FracPow(a, num, den, bits) ==
    IF bits = 0 \/ num = 0 \/ Eq(a, One) THEN [One EXCEPT !.np = a.np]
    ELSE CHOOSE v \in { FracDigit(r, num, den, bits) : r \in {Sqrt(a)} } : TRUE

\* a ** y for floats a > 0, y > 0.
PowPos(a, y) ==
    IF y.e >= 0 THEN IntPow(a, y.m * 10 ^ y.e)
    ELSE IF -y.e > 2 * Digits THEN [One EXCEPT !.np = a.np]
    ELSE LET den == 10 ^ (-y.e)
         IN  Mul(IntPow(a, y.m \div den), FracPow(a, y.m % den, den, PowBits))

IsInteger(y) == y.e >= 0 \/ (-y.e <= 2 * Digits /\ y.m % (10 ^ (-y.e)) = 0)
IsOddInteger(y) ==
    IsInteger(y) /\ (IF y.e >= 0 THEN y.m * 10 ^ y.e ELSE y.m \div 10 ^ (-y.e)) % 2 = 1

\* Python: a ** y, with y a finite float (every exponent in sfg.py is a
\* literal or a float parameter).  A Python float raises where numpy yields
\* inf or nan: 0.0 ** negative, overflow, negative ** fraction (complex).
PowFinite(np, sgn, y, p) ==
    IF p.t = "inf" \/ (y.s < 0 /\ IsZero(p))
    THEN (IF p.t = "inf" /\ y.s < 0 THEN Zero(np)
          ELSE IF np THEN Inf(np, sgn) ELSE Raise("OverflowError"))
    ELSE IF y.s < 0 THEN [Div([One EXCEPT !.np = np], p) EXCEPT !.s = sgn]
    ELSE [p EXCEPT !.s = sgn]

PowOf(a, y) ==
    LET np == a.np \/ y.np
        abs == [a EXCEPT !.s = 1, !.np = np]
        mag == [y EXCEPT !.s = 1]
        sgn == IF a.s < 0 /\ IsOddInteger(y) THEN -1 ELSE 1
    IN  IF IsExc(a) THEN a
        ELSE IF IsExc(y) THEN y
        ELSE IF a.t = "None" \/ y.t = "None" THEN Raise("TypeError")
        ELSE IF IsZero(y) THEN
             (IF a.t = "complex" THEN Complex(np, TRUE) ELSE [One EXCEPT !.np = np])
        ELSE IF a.t = "complex" THEN Complex(np, ~IsZero(a))
        ELSE IF a.t = "nan" \/ y.t # "num" THEN NaN(np)
        ELSE IF a.t = "inf" THEN (IF y.s > 0 THEN Inf(np, sgn) ELSE Zero(np))
        ELSE IF a.m = 0 THEN
             (IF y.s > 0 THEN Zero(np)
              ELSE IF np THEN Inf(np, 1) ELSE Raise("ZeroDivisionError"))
        ELSE IF a.s < 0 /\ ~IsInteger(y) THEN
             (IF np THEN NaN(np) ELSE Complex(np, TRUE))
        ELSE CHOOSE v \in { PowFinite(np, sgn, y, p) : p \in {PowPos(abs, mag)} } : TRUE

Pow(a, y) ==
    CHOOSE r \in { PowOf(v0, v1) : v0 \in {a}, v1 \in {y} } : TRUE

\* numpy.exp(v) = e ** v, always a numpy value.
Euler == Lit(2718, -3)
np_exp(v) ==
    IF IsExc(v) THEN v
    ELSE IF v.t = "None" THEN Raise("TypeError")
    ELSE IF v.t = "inf" THEN (IF v.s > 0 THEN Inf(TRUE, 1) ELSE Zero(TRUE))
    ELSE AsNp(Pow(Euler, v))

---------------------------------------------------------------------------
(* The module namespace and the five functions of sfg.py                   *)

Unset == Val("unset", FALSE, 1, 0, 0)
Binding(kind) == Val(kind, FALSE, 1, 0, 0)

\* The names bound at module level once sfg.py is imported: numpy and the
\* five functions.  Nothing binds h or kB.
ModuleNamespace ==
    [name \in {"np", "Lff_murphy", "Lsynch_murphy", "Lsynch_mancuso", "Lsynch",
               "R_sfg_halflight"} |->
        IF name = "np" THEN Binding("module") ELSE Binding("function")]

\* A global name lookup from inside a function body.
Lookup(g, name) == IF name \in DOMAIN g THEN g[name] ELSE Raise("NameError")

\* The value of  f(args)  where f is the global `name`: the lookup of f comes
\* first, and fails before the call if the name is unbound.
CallGlobal(g, name, result) ==
    IF IsExc(Lookup(g, name)) THEN Lookup(g, name) ELSE result

\* Lff_murphy, line 31:  freq_fac = np.exp(-h*nu / (kB * T))
Lff_freq_fac(g, nu, T) ==
    CallGlobal(g, "np",
        LET num == Mul(Neg(Lookup(g, "h")), nu)
            den == Mul(Lookup(g, "kB"), T)
        IN  np_exp(Div(num, den)))

\* Lff_murphy, line 32:  3.75e19 * sfr * (T / 1e4)**0.3 * gaunt * freq_fac
Lff_return(sfr, T, gaunt, freq_fac) ==
    Mul(Mul(Mul(Mul(Lit(375, 17), sfr), Pow(Div(T, Lit(1, 4)), Lit(3, -1))), gaunt),
        freq_fac)

Lff_murphy(g, sfr, nu, T) ==
    LET gaunt == None
        freq_fac == Lff_freq_fac(g, nu, T)
    IN  IF IsExc(freq_fac) THEN freq_fac ELSE Lff_return(sfr, T, gaunt, freq_fac)

\* Lsynch_murphy, line 53:  freq_fac = nu**(-0.85) / (1. + (nu / 20.)**0.5)
murphy_freq_fac(nu) ==
    Div(Pow(nu, Lit(-85, -2)), Add(One, Pow(Div(nu, Lit(20, 0)), Lit(5, -1))))

\* Lsynch_murphy, line 54:  1.9e21 * sfr * freq_fac
murphy_return(sfr, freq_fac) == Mul(Mul(Lit(19, 20), sfr), freq_fac)

Lsynch_murphy(sfr, nu) ==
    LET freq_fac == murphy_freq_fac(nu)
    IN  IF IsExc(freq_fac) THEN freq_fac ELSE murphy_return(sfr, freq_fac)

\* Lsynch_mancuso, line 78:  Ls = Lsynch_murphy(sfr, nu)
mancuso_Ls(g, sfr, nu) == CallGlobal(g, "Lsynch_murphy", Lsynch_murphy(sfr, nu))

\* Lsynch_mancuso, line 79:  Lstar = 0.086 * Lsynch_murphy(sfr=1., nu=nu)
mancuso_Lstar(g, nu) ==
    CallGlobal(g, "Lsynch_murphy", Mul(Lit(86, -3), Lsynch_murphy(One, nu)))

\* A slip in line 80: the ratio taken the other way up, Ls / Lstar.
mancuso_x_inverted(Lstar, Ls) == Div(Ls, Lstar)

\* Lsynch_mancuso, line 80:  x = Lstar / Ls
mancuso_x(Lstar, Ls) == Div(Lstar, Ls)

\* A slip in line 81: x**beta * x for x**beta + x.
mancuso_return_product(Lstar, x, beta) == Div(Lstar, Mul(Pow(x, beta), x))

\* A slip in line 81: x**beta - x for x**beta + x.
mancuso_return_difference(Lstar, x, beta) == Div(Lstar, Sub(Pow(x, beta), x))

\* Lsynch_mancuso, line 81:  return Lstar / (x**beta + x)
mancuso_return(Lstar, x, beta) == Div(Lstar, Add(Pow(x, beta), x))

Lsynch_mancuso(g, sfr, nu, beta) ==
    LET Ls == mancuso_Ls(g, sfr, nu)
        Lstar == mancuso_Lstar(g, nu)
        x == mancuso_x(Lstar, Ls)
    IN  IF IsExc(Ls) THEN Ls
        ELSE IF IsExc(Lstar) THEN Lstar
        ELSE IF IsExc(x) THEN x
        ELSE mancuso_return(Lstar, x, beta)

\* A slip in line 109: the  1. -  dropped from the exponent.
Lsynch_z_fac_no_offset(g, z) ==
    CallGlobal(g, "np", np_exp(Mul(Lit(235, -2), Pow(Add(One, z), Lit(-12, -2)))))

\* Lsynch, line 109:  z_fac = np.exp(2.35 * (1. - (1. + z)**(-0.12)))
Lsynch_z_fac(g, z) ==
    CallGlobal(g, "np",
        np_exp(Mul(Lit(235, -2), Sub(One, Pow(Add(One, z), Lit(-12, -2))))))

\* Lsynch, line 110:  return z_fac * Lsynch_mancuso(sfr=sfr, nu=nu, beta=beta)
Lsynch_return(g, z_fac, sfr, nu, beta) ==
    Mul(z_fac, CallGlobal(g, "Lsynch_mancuso", Lsynch_mancuso(g, sfr, nu, beta)))

Lsynch(g, sfr, nu, z, beta) ==
    LET z_fac == Lsynch_z_fac(g, z)
    IN  IF IsExc(z_fac) THEN z_fac ELSE Lsynch_return(g, z_fac, sfr, nu, beta)

\* A slip in line 140: the exponent alpha - beta for beta - alpha.
R_sfg_halflight_exponent_swapped(mstar, alpha, beta, gamma, M0) ==
    Mul(Mul(gamma, Pow(mstar, alpha)),
        Pow(Add(One, Div(mstar, M0)), Sub(alpha, beta)))

\* R_sfg_halflight, line 140:
\*   return gamma * mstar**alpha * (1. + mstar/M0)**(beta - alpha)
R_sfg_halflight(mstar, alpha, beta, gamma, M0) ==
    Mul(Mul(gamma, Pow(mstar, alpha)),
        Pow(Add(One, Div(mstar, M0)), Sub(beta, alpha)))

\* The defaults of the signatures.
DefaultT == Lit(1, 4)
DefaultBeta == Lit(3, 0)
DefaultAlphaR == Lit(115, -3)
DefaultBetaR == Lit(898, -3)
DefaultGamma == Lit(199, -3)
DefaultM0 == Lit(3016, 7)

---------------------------------------------------------------------------
(* Callers.  Each caller runs one call at a time in a frame of its own:    *)
(* the function, its arguments, the line it is at, its local variables and *)
(* its outcome (the value returned or the exception raised).               *)

NCallers == 2
SfrDecades == 2
MstarDecades == 3

ArgNames == {"sfr", "nu", "T", "beta", "z", "mstar", "alpha", "gamma", "M0"}
LocalNames == {"gaunt", "freq_fac", "Ls", "Lstar", "x", "z_fac"}

NoArgs == [n \in ArgNames |-> Unset]
NoLocals == [n \in LocalNames |-> Unset]

IdleFrame == [fn |-> "", pc |-> "idle", args |-> NoArgs, locals |-> NoLocals,
              outcome |-> Unset]

NewFrame(fn, pc, args) ==
    [fn |-> fn, pc |-> pc, args |-> args, locals |-> NoLocals, outcome |-> Unset]

\* An array_like argument: a Python float, or a numpy value.
ArrayLike(v, np) == [v EXCEPT !.np = np]

\* The inputs of the sequential specification.
Inputs ==
    [np |-> BOOLEAN,
     sfr |-> {Lit(-1, 0), Lit(0, 0)} \cup
             {Lit(m, e) : m \in {10, 25, 45, 86}, e \in (-SfrDecades - 1) .. (SfrDecades - 1)},
     nu |-> {Lit(0, 0), Lit(-14, -1), Lit(1, 0), Lit(14, -1), Lit(20, 0), Lit(150, 0)},
     T |-> {DefaultT},
     beta |-> {DefaultBeta, Lit(5, -1), Lit(0, 0), Lit(-1, 0)},
     z |-> {Lit(-5, -1), Lit(0, 0), Lit(2, 0)},
     mstar |-> {Lit(0, 0), Lit(-1, 9)} \cup
               {Lit(m, e) : m \in {1000, 1001, 3016}, e \in 6 .. (6 + MstarDecades)}]

\* The inputs of the concurrent specification.
FewInputs ==
    [np |-> {FALSE},
     sfr |-> {Lit(1, 0), Lit(100, 0)},
     nu |-> {Lit(14, -1)},
     T |-> {DefaultT},
     beta |-> {DefaultBeta},
     z |-> {Lit(2, 0)},
     mstar |-> {Lit(1, 10)}]

\* What an assignment would do if the variable were module-level: every
\* caller sees the value.
StoreShared(frames, c, name, v) ==
    [d \in DOMAIN frames |-> [frames[d] EXCEPT !.locals[name] = v]]

\* An assignment to a local variable of caller c's frame.
StoreLocal(frames, c, name, v) == [frames EXCEPT ![c].locals[name] = v]

\* The statement  name = v  at caller c: an exception ends the call.
Assign(c, name, v, next) ==
    IF IsExc(v)
    THEN frame' = [frame EXCEPT ![c].pc = "done", ![c].outcome = v]
    ELSE frame' = [StoreLocal(frame, c, name, v) EXCEPT ![c].pc = next]

\* The statement  return v  at caller c (v an exception: the call raises it).
Return(c, v) == frame' = [frame EXCEPT ![c].pc = "done", ![c].outcome = v]

At(c, fn, pc) == frame[c].fn = fn /\ frame[c].pc = pc
Idle(c) == frame[c].pc = "idle"

Call_Lff_murphy(c, In) ==
    /\ Idle(c)
    /\ \E np \in In.np, sfr \in In.sfr, nu \in In.nu, T \in In.T :
          frame' = [frame EXCEPT ![c] = NewFrame("Lff_murphy", "L30",
                       [NoArgs EXCEPT !.sfr = ArrayLike(sfr, np),
                                      !.nu = ArrayLike(nu, np), !.T = T])]
    /\ UNCHANGED module_globals

\* line 30:  gaunt = None
Lff_murphy_L30(c) ==
    /\ At(c, "Lff_murphy", "L30")
    /\ Assign(c, "gaunt", None, "L31")
    /\ UNCHANGED module_globals

\* line 31:  freq_fac = np.exp(-h*nu / (kB * T))
Lff_murphy_L31(c) ==
    /\ At(c, "Lff_murphy", "L31")
    /\ Assign(c, "freq_fac",
              Lff_freq_fac(module_globals, frame[c].args.nu, frame[c].args.T), "L32")
    /\ UNCHANGED module_globals

\* line 32:  return 3.75e19 * sfr * (T / 1e4)**0.3 * gaunt * freq_fac
\* Line 31 always raises (Line32Unreached below), so this step is never
\* enabled and is left out of Step.
Lff_murphy_L32(c) ==
    /\ At(c, "Lff_murphy", "L32")
    /\ Return(c, Lff_return(frame[c].args.sfr, frame[c].args.T,
                            frame[c].locals.gaunt, frame[c].locals.freq_fac))
    /\ UNCHANGED module_globals

Call_Lsynch_murphy(c, In) ==
    /\ Idle(c)
    /\ \E np \in In.np, sfr \in In.sfr, nu \in In.nu :
          frame' = [frame EXCEPT ![c] = NewFrame("Lsynch_murphy", "L53",
                       [NoArgs EXCEPT !.sfr = ArrayLike(sfr, np),
                                      !.nu = ArrayLike(nu, np)])]
    /\ UNCHANGED module_globals

\* line 53:  freq_fac = nu**(-0.85) / (1. + (nu / 20.)**0.5)
Lsynch_murphy_L53(c) ==
    /\ At(c, "Lsynch_murphy", "L53")
    /\ Assign(c, "freq_fac", murphy_freq_fac(frame[c].args.nu), "L54")
    /\ UNCHANGED module_globals

\* line 54:  return 1.9e21 * sfr * freq_fac
Lsynch_murphy_L54(c) ==
    /\ At(c, "Lsynch_murphy", "L54")
    /\ Return(c, murphy_return(frame[c].args.sfr, frame[c].locals.freq_fac))
    /\ UNCHANGED module_globals

Call_Lsynch_mancuso(c, In) ==
    /\ Idle(c)
    /\ \E np \in In.np, sfr \in In.sfr, nu \in In.nu, beta \in In.beta :
          frame' = [frame EXCEPT ![c] = NewFrame("Lsynch_mancuso", "L78",
                       [NoArgs EXCEPT !.sfr = ArrayLike(sfr, np),
                                      !.nu = ArrayLike(nu, np), !.beta = beta])]
    /\ UNCHANGED module_globals

\* line 78:  Ls = Lsynch_murphy(sfr, nu)
Lsynch_mancuso_L78(c) ==
    /\ At(c, "Lsynch_mancuso", "L78")
    /\ Assign(c, "Ls",
              mancuso_Ls(module_globals, frame[c].args.sfr, frame[c].args.nu), "L79")
    /\ UNCHANGED module_globals

\* line 79:  Lstar = 0.086 * Lsynch_murphy(sfr=1., nu=nu)
Lsynch_mancuso_L79(c) ==
    /\ At(c, "Lsynch_mancuso", "L79")
    /\ Assign(c, "Lstar", mancuso_Lstar(module_globals, frame[c].args.nu), "L80")
    /\ UNCHANGED module_globals

\* line 80:  x = Lstar / Ls
Lsynch_mancuso_L80(c) ==
    /\ At(c, "Lsynch_mancuso", "L80")
    /\ Assign(c, "x", mancuso_x(frame[c].locals.Lstar, frame[c].locals.Ls), "L81")
    /\ UNCHANGED module_globals

\* line 81:  return Lstar / (x**beta + x)
Lsynch_mancuso_L81(c) ==
    /\ At(c, "Lsynch_mancuso", "L81")
    /\ Return(c, mancuso_return(frame[c].locals.Lstar, frame[c].locals.x,
                                frame[c].args.beta))
    /\ UNCHANGED module_globals

Call_Lsynch(c, In) ==
    /\ Idle(c)
    /\ \E np \in In.np, sfr \in In.sfr, nu \in In.nu, z \in In.z, beta \in In.beta :
          frame' = [frame EXCEPT ![c] = NewFrame("Lsynch", "L109",
                       [NoArgs EXCEPT !.sfr = ArrayLike(sfr, np),
                                      !.nu = ArrayLike(nu, np), !.z = z,
                                      !.beta = beta])]
    /\ UNCHANGED module_globals

\* line 109:  z_fac = np.exp(2.35 * (1. - (1. + z)**(-0.12)))
Lsynch_L109(c) ==
    /\ At(c, "Lsynch", "L109")
    /\ Assign(c, "z_fac", Lsynch_z_fac(module_globals, frame[c].args.z), "L110")
    /\ UNCHANGED module_globals

\* line 110:  return z_fac * Lsynch_mancuso(sfr=sfr, nu=nu, beta=beta)
Lsynch_L110(c) ==
    /\ At(c, "Lsynch", "L110")
    /\ Return(c, Lsynch_return(module_globals, frame[c].locals.z_fac,
                               frame[c].args.sfr, frame[c].args.nu,
                               frame[c].args.beta))
    /\ UNCHANGED module_globals

Call_R_sfg_halflight(c, In) ==
    /\ Idle(c)
    /\ \E np \in In.np, mstar \in In.mstar :
          frame' = [frame EXCEPT ![c] = NewFrame("R_sfg_halflight", "L140",
                       [NoArgs EXCEPT !.mstar = ArrayLike(mstar, np),
                                      !.alpha = DefaultAlphaR, !.beta = DefaultBetaR,
                                      !.gamma = DefaultGamma, !.M0 = DefaultM0])]
    /\ UNCHANGED module_globals

\* line 140:  return gamma * mstar**alpha * (1. + mstar/M0)**(beta - alpha)
R_sfg_halflight_L140(c) ==
    /\ At(c, "R_sfg_halflight", "L140")
    /\ Return(c, R_sfg_halflight(frame[c].args.mstar, frame[c].args.alpha,
                                 frame[c].args.beta, frame[c].args.gamma,
                                 frame[c].args.M0))
    /\ UNCHANGED module_globals

\* The caller takes the outcome and is free to call again.
Resume(c) ==
    /\ frame[c].pc = "done"
    /\ frame' = [frame EXCEPT ![c] = IdleFrame]
    /\ UNCHANGED module_globals

Step(c, In) ==
    \/ Call_Lff_murphy(c, In) \/ Lff_murphy_L30(c) \/ Lff_murphy_L31(c)
    \/ Call_Lsynch_murphy(c, In) \/ Lsynch_murphy_L53(c) \/ Lsynch_murphy_L54(c)
    \/ Call_Lsynch_mancuso(c, In) \/ Lsynch_mancuso_L78(c) \/ Lsynch_mancuso_L79(c)
    \/ Lsynch_mancuso_L80(c) \/ Lsynch_mancuso_L81(c)
    \/ Call_Lsynch(c, In) \/ Lsynch_L109(c) \/ Lsynch_L110(c)
    \/ Call_R_sfg_halflight(c, In) \/ R_sfg_halflight_L140(c)
    \/ Resume(c)

\* One caller, the wide inputs.
Init == frame = [c \in {1} |-> IdleFrame] /\ module_globals = ModuleNamespace
Next == Step(1, Inputs)
Spec == Init /\ [][Next]_vars

\* NCallers callers interleaving line by line, a few inputs.
Callers == 1 .. NCallers
InitConc == frame = [c \in Callers |-> IdleFrame] /\ module_globals = ModuleNamespace
NextConc == \E c \in Callers : Step(c, FewInputs)
SpecConc == InitConc /\ [][NextConc]_vars

---------------------------------------------------------------------------
(* Properties                                                              *)

Done(c, fn) == frame[c].fn = fn /\ frame[c].pc = "done"
Positive(v) == Ordered(v) /\ v.s > 0 /\ ~IsZero(v)
Negative(v) == Ordered(v) /\ v.s < 0 /\ ~IsZero(v)
Returned(c) == frame[c].pc = "done" /\ ~IsExc(frame[c].outcome)

\* The outcome of a call made alone, from the whole-function operators.
Alone(fn, a) ==
    CASE fn = "Lff_murphy" -> Lff_murphy(ModuleNamespace, a.sfr, a.nu, a.T)
      [] fn = "Lsynch_murphy" -> Lsynch_murphy(a.sfr, a.nu)
      [] fn = "Lsynch_mancuso" -> Lsynch_mancuso(ModuleNamespace, a.sfr, a.nu, a.beta)
      [] fn = "Lsynch" -> Lsynch(ModuleNamespace, a.sfr, a.nu, a.z, a.beta)
      [] fn = "R_sfg_halflight" -> R_sfg_halflight(a.mstar, a.alpha, a.beta, a.gamma, a.M0)

\* Line 32 of Lff_murphy is dead code: no call gets past line 31.
Line32Unreached == \A c \in DOMAIN frame : frame[c].pc # "L32"

\* C1: every call of Lff_murphy ends by raising NotImplementedError, never
\* with a returned value or any other exception.
C1_RaisesNotImplemented ==
    \A c \in DOMAIN frame :
        Done(c, "Lff_murphy") => frame[c].outcome.t = "NotImplementedError"

\* C2: Lsynch_mancuso with sfr == 0 (nu > 0) follows one explicit policy: the
\* division Lstar / Ls is never reached with Ls == 0, and the call ends
\* either returning 0 or raising a deliberate error.
C2_ExplicitZeroSfrPolicy ==
    \A c \in DOMAIN frame :
        (frame[c].fn = "Lsynch_mancuso" /\ IsZero(frame[c].args.sfr)
            /\ Positive(frame[c].args.nu)) =>
            /\ frame[c].pc = "L80" => ~IsZero(frame[c].locals.Ls)
            /\ frame[c].pc = "done" =>
                  \/ frame[c].outcome.t \in {"DomainError", "ValueError"}
                  \/ IsNum(frame[c].outcome) /\ IsZero(frame[c].outcome)

\* The arguments of a call lie outside the physical domain: sfr < 0 or
\* nu <= 0 in the synchrotron functions, z < 0 in Lsynch, mstar <= 0 in
\* R_sfg_halflight.
OutOfDomain(f) ==
    \/ /\ f.fn \in {"Lsynch_murphy", "Lsynch_mancuso", "Lsynch"}
       /\ Negative(f.args.sfr) \/ ~Positive(f.args.nu)
    \/ f.fn = "Lsynch" /\ Negative(f.args.z)
    \/ f.fn = "R_sfg_halflight" /\ ~Positive(f.args.mstar)

FirstLine == {"L30", "L53", "L78", "L109", "L140"}

\* C3: an input outside the physical domain is rejected eagerly with a
\* DomainError: the call computes nothing and returns no number.
C3_RejectsOutOfDomain ==
    \A c \in DOMAIN frame :
        OutOfDomain(frame[c]) =>
            /\ frame[c].pc \in FirstLine \cup {"done"}
            /\ frame[c].pc = "done" => frame[c].outcome.t = "DomainError"

\* The case of C4: a finished call of Lsynch_mancuso, nu > 0, whose ratio
\* x = Lstar / Ls came out as exactly 1.
RatioIsOne(c) ==
    /\ Done(c, "Lsynch_mancuso") /\ Positive(frame[c].args.nu)
    /\ Eq(frame[c].locals.x, One)

\* C4 (as claimed): when x == 1, Lsynch_mancuso returns exactly Lstar.
C4_ReturnsLstar ==
    \A c \in DOMAIN frame :
        RatioIsOne(c) => Eq(frame[c].outcome, frame[c].locals.Lstar)

\* C4 (amended): when x == 1, Lsynch_mancuso returns exactly Lstar / 2, for
\* every beta: the denominator x**beta + x is 1 + 1.
C4_ReturnsHalfLstar ==
    \A c \in DOMAIN frame :
        RatioIsOne(c) =>
            Eq(frame[c].outcome, Div(frame[c].locals.Lstar, Lit(2, 0)))

C4_Witness ==
    \E c \in DOMAIN frame :
        RatioIsOne(c) /\ Positive(frame[c].outcome)
            /\ frame[c].args.sfr = Lit(86, -3) /\ frame[c].args.beta # DefaultBeta

\* The case of C5: a finished call of Lsynch with z = 0, sfr > 0, nu > 0.
AtRedshiftZero(c) ==
    /\ Done(c, "Lsynch") /\ IsZero(frame[c].args.z)
    /\ Positive(frame[c].args.sfr) /\ Positive(frame[c].args.nu)

\* C5: for sfr > 0, nu > 0 and every beta, Lsynch(sfr, nu, z=0, beta) equals
\* Lsynch_mancuso(sfr, nu, beta), the redshift factor z_fac being exactly 1.
C5_RedshiftZeroIsSaturated ==
    \A c \in DOMAIN frame :
        AtRedshiftZero(c) =>
            /\ Eq(frame[c].locals.z_fac, One)
            /\ Eq(frame[c].outcome,
                  Lsynch_mancuso(module_globals, frame[c].args.sfr, frame[c].args.nu,
                                 frame[c].args.beta))

C5_Witness ==
    \E c \in DOMAIN frame :
        AtRedshiftZero(c) /\ Positive(frame[c].outcome) /\ frame[c].args.sfr.np

\* The star-formation rates of the inputs that are positive and at most sfr.
SfrUpTo(sfr) == { ArrayLike(s, sfr.np) : s \in { t \in Inputs.sfr : Positive(t) /\ Le(t, sfr) } }

\* The case of C6: a finished call of Lsynch_mancuso with sfr, nu, beta > 0.
SaturatedCase(c) ==
    /\ Done(c, "Lsynch_mancuso") /\ Positive(frame[c].args.sfr)
    /\ Positive(frame[c].args.nu) /\ Positive(frame[c].args.beta)

HalfLightCase(c) ==
    /\ Done(c, "R_sfg_halflight") /\ Positive(frame[c].args.mstar)
    /\ frame[c].args.alpha = DefaultAlphaR /\ frame[c].args.beta = DefaultBetaR
    /\ frame[c].args.gamma = DefaultGamma /\ frame[c].args.M0 = DefaultM0

R_default(mstar) ==
    R_sfg_halflight(mstar, DefaultAlphaR, DefaultBetaR, DefaultGamma, DefaultM0)

\* The stellar masses of the inputs that are positive and below mstar.
MstarBelow(mstar) ==
    { ArrayLike(m, mstar.np) : m \in { t \in Inputs.mstar : Positive(t) /\ Lt(t, mstar) } }

\* C7 (as claimed): with the defaults, R_sfg_halflight is strictly
\* increasing: for 0 < m1 < m2, R(m1) < R(m2).
C7_StrictlyIncreasing ==
    \A c \in DOMAIN frame :
        HalfLightCase(c) =>
            \A m1 \in MstarBelow(frame[c].args.mstar) :
                Lt(R_default(m1), frame[c].outcome)

\* C7 (amended): with the defaults, R_sfg_halflight is non-decreasing, for
\* 0 < m1 < m2, R(m1) <= R(m2) (two masses a rounding step apart can give
\* the same float), and strictly increasing across a factor of two in mass.
C7_NonDecreasing ==
    \A c \in DOMAIN frame :
        HalfLightCase(c) =>
            \A m1 \in MstarBelow(frame[c].args.mstar) :
                /\ Le(R_default(m1), frame[c].outcome)
                /\ Le(Mul(Lit(2, 0), m1), frame[c].args.mstar) =>
                      Lt(R_default(m1), frame[c].outcome)

C7_Witness ==
    \E c \in DOMAIN frame :
        /\ HalfLightCase(c)
        /\ \E m1, m2 \in MstarBelow(frame[c].args.mstar) :
              /\ Eq(R_default(m1), frame[c].outcome)
              /\ Lt(R_default(m2), frame[c].outcome)

\* Every call is stateless: no call changes the module namespace, and in any
\* interleaving a finished call's outcome is the outcome of the same call
\* made alone.
C8_Stateless ==
    /\ module_globals = ModuleNamespace
    /\ \A c \in DOMAIN frame :
          frame[c].pc = "done" => frame[c].outcome = Alone(frame[c].fn, frame[c].args)

C8_Witness ==
    \E c1, c2 \in DOMAIN frame :
        /\ c1 # c2
        /\ Done(c1, "Lsynch_mancuso") /\ Returned(c1)
        /\ frame[c2].fn = "Lsynch_mancuso" /\ frame[c2].pc = "L80"
        /\ frame[c1].args.sfr # frame[c2].args.sfr

\* C9: h and kB are bound at module level, so a function that reads them
\* (Lff_murphy, at line 31) finds them defined.
C9_ConstantsDefined ==
    \A c \in DOMAIN frame :
        frame[c].fn = "Lff_murphy" /\ frame[c].pc \in {"L31", "done"} =>
            /\ {"h", "kB"} \subseteq DOMAIN module_globals
            /\ frame[c].outcome.t # "NameError"

\* The case of C10: a finished call of Lsynch_mancuso with sfr > 0, nu > 0.
PhysicalCase(c) ==
    /\ Done(c, "Lsynch_mancuso") /\ Positive(frame[c].args.sfr)
    /\ Positive(frame[c].args.nu)

=============================================================================
